---- MODULE Spec2Model ----
(***************************************************************************)
(* Model of the video segmentation pipeline of AIDivideMovie:              *)
(*   src/src/services/video_splitter.py  (VideoSplitter)                   *)
(* Text is a sequence of one-character strings, so that the regular        *)
(* expression search, strip, split and join of the code are computed on    *)
(* characters as Python computes them.                                     *)
(***************************************************************************)
EXTENDS Integers, Sequences, FiniteSets, TLC

(***************************************************************************)
(* Bounds of the model.                                                    *)
(***************************************************************************)
\* most lines between the header and the end of the table in a response the
\* extractor is applied to
MaxRows == 3
\* most data rows in an analyzer reply of a pipeline run
MaxSegs == 2
\* most colon-separated fields in a timecode _time_to_seconds is applied to
MaxTimeFields == 4
\* most presses of the execute button in a session of the main window
MaxPresses == 2
\* most message boxes of the folder button and of the settings dialog in a
\* session of the main window
MaxBoxes == 1

(***************************************************************************)
(* Python str primitives used by the code.                                 *)
(***************************************************************************)
\* A character that a string of the module cannot hold is the token that
\* names its code point: "U+000B" is the vertical tab.
\* The characters str.strip() removes, the pattern \s matches and int()
\* ignores around a number: those of str.isspace()
WhiteSpace ==
  {" ", "\t", "\n", "\r", "\f", "U+000B", "U+001C", "U+001D", "U+001E", "U+001F",
   "U+0085", "U+00A0", "U+1680", "U+2000", "U+2001", "U+2002", "U+2003", "U+2004",
   "U+2005", "U+2006", "U+2007", "U+2008", "U+2009", "U+200A", "U+2028", "U+2029",
   "U+202F", "U+205F", "U+3000"}

IsSpace(c) == c \in WhiteSpace

\* index of the first non-space character of s, Len(s)+1 when there is none
FirstNonSpace(s) ==
  IF \E i \in 1..Len(s) : ~IsSpace(s[i])
  THEN CHOOSE i \in 1..Len(s) : ~IsSpace(s[i]) /\ \A j \in 1..(i-1) : IsSpace(s[j])
  ELSE Len(s) + 1

\* index of the last non-space character of s, 0 when there is none
LastNonSpace(s) ==
  IF \E i \in 1..Len(s) : ~IsSpace(s[i])
  THEN CHOOSE i \in 1..Len(s) : ~IsSpace(s[i]) /\ \A j \in (i+1)..Len(s) : IsSpace(s[j])
  ELSE 0

\* str.strip()
Strip(s) == SubSeq(s, FirstNonSpace(s), LastNonSpace(s))

\* str.lower() of one character: the ASCII letters, and the two letters of
\* Letters outside ASCII, which have no upper case
LowerChar(c) ==
  CASE c = "A" -> "a"
    [] c = "B" -> "b"
    [] c = "C" -> "c"
    [] c = "D" -> "d"
    [] c = "E" -> "e"
    [] c = "F" -> "f"
    [] c = "G" -> "g"
    [] c = "H" -> "h"
    [] c = "I" -> "i"
    [] c = "J" -> "j"
    [] c = "K" -> "k"
    [] c = "L" -> "l"
    [] c = "M" -> "m"
    [] c = "N" -> "n"
    [] c = "O" -> "o"
    [] c = "P" -> "p"
    [] c = "Q" -> "q"
    [] c = "R" -> "r"
    [] c = "S" -> "s"
    [] c = "T" -> "t"
    [] c = "U" -> "u"
    [] c = "V" -> "v"
    [] c = "W" -> "w"
    [] c = "X" -> "x"
    [] c = "Y" -> "y"
    [] c = "Z" -> "z"
    [] OTHER -> c

Lower(s) == [i \in 1..Len(s) |-> LowerChar(s[i])]

\* pat occurs in s starting at index i
MatchAt(s, pat, i) ==
  /\ i >= 1
  /\ i + Len(pat) - 1 <= Len(s)
  /\ \A k \in 1..Len(pat) : s[i + k - 1] = pat[k]

\* pat in s
Contains(s, pat) == \E i \in 1..(Len(s) + 1) : MatchAt(s, pat, i)

\* s.split(c) for a one-character separator c: always at least one part
RECURSIVE Split(_, _)
Split(s, c) ==
  IF \E i \in 1..Len(s) : s[i] = c
  THEN LET i == CHOOSE i \in 1..Len(s) : s[i] = c /\ \A j \in 1..(i-1) : s[j] # c
       IN  <<SubSeq(s, 1, i - 1)>> \o Split(SubSeq(s, i + 1, Len(s)), c)
  ELSE <<s>>

\* c.join(parts)
RECURSIVE Join(_, _)
Join(parts, c) ==
  IF Len(parts) = 0 THEN <<>>
  ELSE IF Len(parts) = 1 THEN parts[1]
  ELSE parts[1] \o <<c>> \o Join(Tail(parts), c)

(***************************************************************************)
(* _parse_csv_response: the fenced block search (lines 145-150)            *)
(***************************************************************************)
\* the backquote character (a TLA+ string cannot hold it)
BQ == "backquote"

FenceOpen  == <<BQ, BQ, BQ, "c", "s", "v">>
FenceClose == <<"\n", BQ, BQ, BQ>>
HeaderTokens ==
  <<"e","v","e","n","t","_","i","d",",",
    "s","t","a","r","t","_","t","i","m","e",",",
    "e","n","d","_","t","i","m","e">>

\* The newline positions k that the pattern part \s*\n can end on after an
\* opening tag at p:
\* s[p+6..k-1] is white space and s[k] is the newline.
OpenNewlines(s, p) ==
  {k \in (p + 6)..Len(s) : s[k] = "\n" /\ \A j \in (p + 6)..(k - 1) : IsSpace(s[j])}

\* The positions of a closing newline-and-three-backquotes at or after index g.
Closings(s, g) == {q \in g..Len(s) : MatchAt(s, FenceClose, q)}

\* The pattern csv_pattern of line 146 matches with its opening tag at p.
FenceMatchesAt(s, p) ==
  /\ MatchAt(s, FenceOpen, p)
  /\ \E k \in OpenNewlines(s, p) : Closings(s, k + 1) # {}

\* re.search found a match
HasFence(s) == \E p \in 1..Len(s) : FenceMatchesAt(s, p)

Min(S) == CHOOSE x \in S : \A y \in S : x <= y
Max(S) == CHOOSE x \in S : \A y \in S : x >= y

\* csv_match.group(1): leftmost opening tag, greedy \s*, lazy (.*?)
FenceGroup(s) ==
  LET p == Min({x \in 1..Len(s) : FenceMatchesAt(s, x)})
      k == Max({x \in OpenNewlines(s, p) : Closings(s, x + 1) # {}})
      q == Min(Closings(s, k + 1))
  IN  SubSeq(s, k + 1, q - 1)

(***************************************************************************)
(* _parse_csv_response: the line scan fallback (lines 151-169)             *)
(***************************************************************************)
\* line 159
IsHeaderLine(line) == Contains(Lower(line), HeaderTokens)

\* line 162 (without in_csv)
IsTableShaped(line) ==
  /\ \E i \in 1..Len(line) : line[i] = ","
  /\ Len(Split(line, ",")) >= 3

\* the loop without the break of line 167: a line that is neither blank nor
\* table-shaped is passed over and the capture goes on
RECURSIVE ScanLinesNoBreak(_, _, _, _)
ScanLinesNoBreak(lines, i, in_csv, acc) ==
  IF i > Len(lines) THEN acc
  ELSE LET line == Strip(lines[i]) IN
       IF IsHeaderLine(line) THEN ScanLinesNoBreak(lines, i + 1, TRUE, Append(acc, line))
       ELSE IF in_csv /\ IsTableShaped(line)
            THEN ScanLinesNoBreak(lines, i + 1, in_csv, Append(acc, line))
       ELSE ScanLinesNoBreak(lines, i + 1, in_csv, acc)

\* the for loop of lines 157-167 from line i on, csv_lines collected in acc
RECURSIVE ScanLines(_, _, _, _)
ScanLines(lines, i, in_csv, acc) ==
  IF i > Len(lines) THEN acc
  ELSE LET line == Strip(lines[i]) IN
       IF IsHeaderLine(line) THEN ScanLines(lines, i + 1, TRUE, Append(acc, line))
       ELSE IF in_csv /\ IsTableShaped(line)
            THEN ScanLines(lines, i + 1, in_csv, Append(acc, line))
       ELSE IF in_csv /\ line = <<>> THEN ScanLines(lines, i + 1, in_csv, acc)
       ELSE IF in_csv THEN acc
       ELSE ScanLines(lines, i + 1, in_csv, acc)

\* the scan capturing from the first line on, header or not
LineScanFromFirstLine(s) == Join(ScanLines(Split(Strip(s), "\n"), 1, TRUE, <<>>), "\n")

\* lines 153-169
LineScanContent(s) == Join(ScanLines(Split(Strip(s), "\n"), 1, FALSE, <<>>), "\n")

\* lines 149-169
CsvContent(s) == IF HasFence(s) THEN Strip(FenceGroup(s)) ELSE LineScanContent(s)

(***************************************************************************)
(* _parse_csv_response: the rows (lines 171-197)                           *)
(***************************************************************************)
\* a row accepted whatever its fields hold
RowSegmentsKeepEmpty(line) ==
  LET parts == Split(Strip(line), ",") IN
  IF Len(parts) >= 3
  THEN <<[event_id |-> Strip(parts[1]), start_time |-> Strip(parts[2]),
          end_time |-> Strip(parts[3])]>>
  ELSE <<>>

\* lines 183-194: the segment of one line, <<>> when the line is dropped
RowSegments(line) ==
  LET parts == Split(Strip(line), ",") IN
  IF Len(parts) >= 3
  THEN LET event_id   == Strip(parts[1])
           start_time == Strip(parts[2])
           end_time   == Strip(parts[3])
       IN  IF event_id # <<>> /\ start_time # <<>> /\ end_time # <<>>
           THEN <<[event_id |-> event_id, start_time |-> start_time, end_time |-> end_time]>>
           ELSE <<>>
  ELSE <<>>

\* the for loop of lines 182-194 over lines[i..]
RECURSIVE RowsFrom(_, _)
RowsFrom(lines, i) ==
  IF i > Len(lines) THEN <<>> ELSE RowSegments(lines[i]) \o RowsFrom(lines, i + 1)

\* the header line not discarded
ParseTableKeepsHeader(csv_content) ==
  IF csv_content = <<>> THEN <<>>
  ELSE LET lines == Split(Strip(csv_content), "\n") IN
       IF Len(lines) < 2 THEN <<>> ELSE RowsFrom(lines, 1)

\* lines 171-197 on the candidate table text
ParseTable(csv_content) ==
  IF csv_content = <<>> THEN <<>>
  ELSE LET lines == Split(Strip(csv_content), "\n") IN
       IF Len(lines) < 2 THEN <<>> ELSE RowsFrom(lines, 2)

\* A response that is not text (re.search raises TypeError at line 147): a
\* sequence holding one token that is no character.
NoText == <<"NoText">>

\* The try body (lines 145-197): the exception it ends with ("none" when it
\* returns) and the segments accumulated when it ends.
ParseBody(response) ==
  IF response = NoText
  THEN [exc |-> "TypeError", segments |-> <<>>]
  ELSE [exc |-> "none", segments |-> ParseTable(CsvContent(response))]

\* The except clause (lines 199-202): every exception is logged and the
\* segments accepted so far are returned.
ParseExcept(body) == [exc |-> "none", segments |-> body.segments]

\* _parse_csv_response as its caller sees it
parse_csv_response(response) ==
  LET body == ParseBody(response) IN
  IF body.exc = "none" THEN body ELSE ParseExcept(body)

(***************************************************************************)
(* _time_to_seconds (lines 204-229)                                        *)
(***************************************************************************)
\* The decimal digits int() reads and \w matches: the ASCII digits, and, for
\* the decimal digits of the other scripts, U+0663 (the Arabic-Indic three).
Digits == {"0", "1", "2", "3", "4", "5", "6", "7", "8", "9", "U+0663"}

DigitValue(c) ==
  CASE c = "0" -> 0 [] c = "1" -> 1 [] c = "2" -> 2 [] c = "3" -> 3 [] c = "4" -> 4
    [] c = "5" -> 5 [] c = "6" -> 6 [] c = "7" -> 7 [] c = "8" -> 8 [] c = "9" -> 9
    [] c = "U+0663" -> 3

\* the white space int() ignores around a number: that of str.isspace()
\* without the four separators U+001C to U+001F
IsIntSpace(c) == IsSpace(c) /\ c \notin {"U+001C", "U+001D", "U+001E", "U+001F"}

\* the argument of int() without the white space around it
IntStrip(field) ==
  LET kept == {i \in 1..Len(field) : ~IsIntSpace(field[i])} IN
  IF kept = {} THEN <<>>
  ELSE SubSeq(field, CHOOSE i \in kept : \A j \in kept : i <= j,
                     CHOOSE i \in kept : \A j \in kept : i >= j)

\* the text of an int() argument without the white space around it and
\* without its optional sign
IntDigits(field) ==
  LET t == IntStrip(field) IN
  IF t # <<>> /\ t[1] \in {"+", "-"} THEN Tail(t) ELSE t

\* int(field) does not raise ValueError: optional white space around, an
\* optional sign, then digits, single underscores allowed between digits
IsInt(field) ==
  LET b == IntDigits(field) IN
  /\ b # <<>>
  /\ b[1] \in Digits
  /\ b[Len(b)] \in Digits
  /\ \A i \in 1..Len(b) : b[i] \in Digits \/ b[i] = "_"
  /\ \A i \in 1..(Len(b) - 1) : ~(b[i] = "_" /\ b[i + 1] = "_")

RECURSIVE DigitsValue(_, _, _)
DigitsValue(b, i, acc) ==
  IF i > Len(b) THEN acc
  ELSE IF b[i] = "_" THEN DigitsValue(b, i + 1, acc)
  ELSE DigitsValue(b, i + 1, acc * 10 + DigitValue(b[i]))

\* int(field), for a field with IsInt(field)
IntOf(field) ==
  LET t == IntStrip(field)
      v == DigitsValue(IntDigits(field), 1, 0)
  IN  IF t[1] = "-" THEN 0 - v ELSE v

\* the try body (lines 215-225): the exception it ends with ("none" when it
\* returns) and the value it returns
TimeBody(time_str) ==
  LET parts == Split(Strip(time_str), ":")
      invalid == [exc |-> "ValueError", value |-> 0]
  IN  IF Len(parts) = 2
      THEN IF IsInt(parts[1]) /\ IsInt(parts[2])
           THEN [exc |-> "none", value |-> IntOf(parts[1]) * 60 + IntOf(parts[2])]
           ELSE invalid
      ELSE IF Len(parts) = 3
      THEN IF IsInt(parts[1]) /\ IsInt(parts[2]) /\ IsInt(parts[3])
           THEN [exc |-> "none",
                 value |-> IntOf(parts[1]) * 3600 + IntOf(parts[2]) * 60 + IntOf(parts[3])]
           ELSE invalid
      ELSE invalid

\* the except clause left out: the ValueError goes to the caller
TimeExceptNone(body) == body

\* the except clause (lines 227-229): ValueError and TypeError give 0.0
TimeExcept(body) ==
  IF body.exc \in {"ValueError", "TypeError"} THEN [exc |-> "none", value |-> 0] ELSE body

\* _time_to_seconds as its caller sees it: the exception and the value
time_to_seconds_call(time_str) == TimeExcept(TimeBody(time_str))

\* _time_to_seconds: the value 0 stands for the fallback 0.0 as well
time_to_seconds(time_str) == time_to_seconds_call(time_str).value

(***************************************************************************)
(* _split_video_with_ffmpeg: one iteration of the loop (lines 250-301)     *)
(***************************************************************************)
\* The letters \w matches: the ASCII letters, and, for the letters of the
\* other scripts, U+00E9 (e with acute accent) and U+4F1A (a Han character).
\* Characters that are neither in Letters, in Digits nor one of _ - . stand
\* for characters \w does not match.
Letters ==
  {"a","b","c","d","e","f","g","h","i","j","k","l","m","n","o","p","q","r",
   "s","t","u","v","w","x","y","z","A","B","C","D","E","F","G","H","I","J",
   "K","L","M","N","O","P","Q","R","S","T","U","V","W","X","Y","Z","U+00E9",
   "U+4F1A"}

\* the characters the class [^\w\-_.] of line 266 leaves alone
IsSafeChar(c) == c \in Letters \/ c \in Digits \/ c \in {"_", "-", "."}

\* line 266
Sanitize(event_id) ==
  [i \in 1..Len(event_id) |-> IF IsSafeChar(event_id[i]) THEN event_id[i] ELSE "_"]

OutputDir == <<"o","u","t">>
Mp4Ext == <<".","m","p","4">>

\* a file name without the run date
OutputFilePathNoDate(event_id, today) ==
  OutputDir \o <<"/">> \o Sanitize(event_id) \o Mp4Ext

\* lines 267-268
OutputFilePath(event_id, today) ==
  OutputDir \o <<"/">> \o Sanitize(event_id) \o <<"_">> \o today \o Mp4Ext

\* a zero-length interval not skipped
IsSkippedNegativeOnly(duration) == duration < 0

\* line 261: the segment is skipped
IsSkipped(duration) == duration <= 0

\* an iteration that skips no segment
PlanJobNoSkip(segment, today) ==
  LET start_seconds == time_to_seconds(segment.start_time)
      end_seconds   == time_to_seconds(segment.end_time)
  IN  [skip          |-> FALSE,
       start_seconds |-> start_seconds,
       duration      |-> end_seconds - start_seconds,
       output        |-> OutputFilePath(segment.event_id, today)]

\* lines 252-268: what the iteration computes before it calls the cutter
PlanJob(segment, today) ==
  LET start_seconds == time_to_seconds(segment.start_time)
      end_seconds   == time_to_seconds(segment.end_time)
      duration      == end_seconds - start_seconds
  IN  [skip          |-> IsSkipped(duration),
       start_seconds |-> start_seconds,
       duration      |-> duration,
       output        |-> OutputFilePath(segment.event_id, today)]

\* what one subprocess.run of the cutter can do: return code 0, another
\* return code, or an exception
CutterOutcomes == {"ok", "failed", "exception"}

\* lines 292-301: split_files after the cutter call of one job
FilesAfterCut(files, output, outcome) ==
  IF outcome = "ok" THEN Append(files, output) ELSE files

\* an exception of the cutter leaving the loop
LoopStopsOnException(outcome) == outcome # "exception"

\* lines 299-301: the loop goes on after an iteration that ended with outcome
LoopContinues(outcome) == TRUE

(***************************************************************************)
(* _save_segments_to_csv (lines 305-334)                                   *)
(***************************************************************************)
\* line 317: the instant of the write as %Y%m%d_%H%M%S, one instant in the model
SaveTimestamp == <<"2","0","2","6","1","0","3","0","_","0","1","0","2","0","3">>

\* line 318
ManifestName ==
  <<"v","i","d","e","o","_","s","e","g","m","e","n","t","s","_">> \o SaveTimestamp
  \o <<".","c","s","v">>
ManifestPath == OutputDir \o <<"/">> \o ManifestName

\* csv.writer with QUOTE_MINIMAL: a field that holds the delimiter, a quote or
\* a character of the line terminator is put in quotes, its quotes doubled
NeedsQuotes(field) ==
  \E i \in 1..Len(field) : field[i] \in {",", "\"", "\r", "\n"}

RECURSIVE DoubledQuotes(_)
DoubledQuotes(field) ==
  IF field = <<>> THEN <<>>
  ELSE (IF Head(field) = "\"" THEN <<"\"", "\"">> ELSE <<Head(field)>>)
       \o DoubledQuotes(Tail(field))

CsvField(field) ==
  IF NeedsQuotes(field) THEN <<"\"">> \o DoubledQuotes(field) \o <<"\"">> ELSE field

\* the line terminator of csv.writer, written as it is (newline='')
CsvLineEnd == <<"\r", "\n">>

\* csv.DictWriter.writerow: the three fields in fieldnames order
CsvRow(segment) ==
  CsvField(segment.event_id) \o <<",">> \o CsvField(segment.start_time) \o <<",">>
  \o CsvField(segment.end_time) \o CsvLineEnd

\* the rows of the segments from the i-th on
RECURSIVE CsvRows(_, _)
CsvRows(segments, i) ==
  IF i > Len(segments) THEN <<>> ELSE CsvRow(segments[i]) \o CsvRows(segments, i + 1)

\* lines 321-326: the text of the file, writeheader then one row a segment
ManifestText(segments) == HeaderTokens \o CsvLineEnd \o CsvRows(segments, 1)

\* no manifest file (a file without text is <<>>)
NoFile == <<"NoFile">>

\* How the write can end: the whole text written and the file closed; open()
\* raised; or the write raised. The text is buffered and reaches the file
\* when the with block closes it, so a write that fails leaves the first n
\* characters of the text, cut anywhere (all of them when the close failed
\* after the last one).
SaveOutcomes == {"written", "open_failed", "write_failed"}

\* a failed write that returns the path all the same
save_segments_to_csv_path_always(segments, outcome, n) ==
  [csv_file |-> ManifestPath,
   manifest |-> CASE outcome = "written" -> ManifestText(segments)
                  [] outcome = "open_failed" -> NoFile
                  [] outcome = "write_failed" -> SubSeq(ManifestText(segments), 1, n)]

\* _save_segments_to_csv: the path returned ("" is <<>>) and the file left,
\* when the write ends with outcome after n characters
save_segments_to_csv(segments, outcome, n) ==
  CASE outcome = "written"      -> [csv_file |-> ManifestPath,
                                    manifest |-> ManifestText(segments)]
    [] outcome = "open_failed"  -> [csv_file |-> <<>>, manifest |-> NoFile]
    [] outcome = "write_failed" -> [csv_file |-> <<>>,
                                    manifest |-> SubSeq(ManifestText(segments), 1, n)]

(***************************************************************************)
(* _analyze_video_with_custom_prompt (lines 336-393), _analyze_video       *)
(* (lines 97-130)                                                          *)
(***************************************************************************)
\* how the one call of the remote analyzer can end
AnalyzerOutcomes == {"text", "upload_error", "generate_error", "empty_text"}

\* lines 347-383: every failure is raised as GeminiAPIError
analyze_video_with_custom_prompt(outcome, text) ==
  IF outcome = "text"
  THEN [exc |-> "none", text |-> text]
  ELSE [exc |-> "GeminiAPIError", text |-> NoText]

\* _analyze_video calling the analyzer a second time when the first call fails
analyze_video_retry(prompt_found, outcome, text) ==
  IF ~prompt_found
  THEN [exc |-> "VideoSplitterError", calls |-> 0, response |-> NoText, segments |-> <<>>]
  ELSE LET r == analyze_video_with_custom_prompt(outcome, text) IN
       IF r.exc # "none"
       THEN [exc |-> "VideoSplitterError", calls |-> 2, response |-> NoText, segments |-> <<>>]
       ELSE [exc |-> "none", calls |-> 1, response |-> r.text,
             segments |-> parse_csv_response(r.text).segments]

\* lines 107-130: calls counts the invocations of the analyzer
analyze_video(prompt_found, outcome, text) ==
  IF ~prompt_found
  THEN [exc |-> "VideoSplitterError", calls |-> 0, response |-> NoText, segments |-> <<>>]
  ELSE LET r == analyze_video_with_custom_prompt(outcome, text) IN
       IF r.exc # "none"
       THEN [exc |-> "VideoSplitterError", calls |-> 1, response |-> NoText, segments |-> <<>>]
       ELSE [exc |-> "none", calls |-> 1, response |-> r.text,
             segments |-> parse_csv_response(r.text).segments]

(***************************************************************************)
(* split_video (lines 47-95)                                               *)
(***************************************************************************)
\* the input check left out
InputMissingNever(exists) == FALSE

\* line 49: the input check raises
InputMissing(exists) == ~exists

\* the empty list accepted
NoSegmentsNever(segments) == FALSE

\* line 65: an empty segment list raises
NoSegments(segments) == segments = <<>>

\* the exception of the try block let through as it is
split_video_reraise(exc) == exc

\* lines 93-95: the exception split_video raises for an exception of type
\* exc (a subclass of Exception) raised inside its try block
split_video_except(exc) == "VideoSplitterError"

\* result holds the returned dict, or nothing
NoResult == <<>>

\* the summary counting the produced files as the segments
RunResultCountsFiles(segments, files, csv) ==
  [input_file       |-> <<"i","n">>,
   output_directory |-> <<"o","u","t">>,
   segments_count   |-> Len(files),
   split_files      |-> files,
   csv_file         |-> csv,
   segments         |-> segments]

\* lines 81-88
RunResult(segments, files, csv) ==
  [input_file       |-> <<"i","n">>,
   output_directory |-> OutputDir,
   segments_count   |-> Len(segments),
   split_files      |-> files,
   csv_file         |-> csv,
   segments         |-> segments]

(***************************************************************************)
(* Inputs.                                                                 *)
(***************************************************************************)
\* the sequences over S of length at most n
SeqsUpTo(S, n) == UNION {[1..k -> S] : k \in 0..n}

Fence3 == <<BQ, BQ, BQ>>
ProseLine == <<"H","i">>

\* Data rows an analyzer reply of a pipeline run is made of: 90 seconds, an
\* inverted interval, an id with a character that is not file-name safe
\* (105 seconds), and malformed timecodes (both read as zero).
SegRowGood      == <<"e","v","1",",","0","0",":","0","0",",","0","1",":","3","0">>
SegRowInverted  == <<"e","v","2",",","0","1",":","3","0",",","0","1",":","1","0">>
SegRowUnsafeId  == <<"A","/","B"," ","C",",","0",":","0","2",":","0","0",",","0",":","0","3",":","4","5">>
SegRowMalformed == <<"e","v","4",",","b","a","d",",","1",":","x">>
SegRows == {SegRowGood, SegRowInverted, SegRowUnsafeId, SegRowMalformed}

\* a reply with the rows in a fenced csv block
FencedReply(rows) == Join(<<FenceOpen, HeaderTokens>> \o rows \o <<Fence3>>, "\n")

\* the texts the analyzer returns in the pipeline runs of the model
AnalyzerTexts == {FencedReply(rows) : rows \in SeqsUpTo(SegRows, MaxSegs)} \cup {ProseLine}

\* the run dates
Date1 == <<"2","0","2","6","1","0","3","0">>
Date2 == <<"2","0","2","6","1","0","3","1">>
Dates == {Date1, Date2}

\* Lines of the responses the extractor is applied to on its own.
HeaderLine    == <<"E","v","e","n","t","_","I","D",",","s","t","a","r","t","_","t","i","m","e",",","e","n","d","_","t","i","m","e">>
AltHeaderLine == <<"i","d",",","s",",","e">>
RowA          == <<" ","a"," ",","," ","1"," ",",","2">>
RowB          == <<"b",",","3",",","4",",","5">>
RowTwoFields  == <<"c",",","6">>
RowEmptyId    == <<" ",",","6",",","7">>

RowKinds == {"valid_a", "valid_b", "two_fields", "empty_id", "blank", "prose", "header"}
HeaderKinds == {"tokens", "alt", "none"}

RowText(kind) ==
  CASE kind = "valid_a"    -> RowA
    [] kind = "valid_b"    -> RowB
    [] kind = "two_fields" -> RowTwoFields
    [] kind = "empty_id"   -> RowEmptyId
    [] kind = "blank"      -> <<>>
    [] kind = "prose"      -> ProseLine
    [] kind = "header"     -> HeaderLine

HeaderText(kind) ==
  CASE kind = "tokens" -> <<HeaderLine>>
    [] kind = "alt"    -> <<AltHeaderLine>>
    [] kind = "none"   -> <<>>

\* The shape of a response: prose before, a table (fenced or not, with or
\* without a header line, then rows), prose after.
Shapes ==
  [pre : BOOLEAN, fenced : BOOLEAN, header : HeaderKinds,
   rows : SeqsUpTo(RowKinds, MaxRows), post : BOOLEAN]

\* the shape of a response that is not text
NoShape == [pre |-> FALSE, fenced |-> FALSE, header |-> "notext", rows |-> <<>>, post |-> FALSE]

\* the response text of a shape
Render(sh) ==
  IF sh = NoShape THEN NoText ELSE
  Join((IF sh.pre THEN <<ProseLine>> ELSE <<>>)
       \o (IF sh.fenced THEN <<FenceOpen>> ELSE <<>>)
       \o HeaderText(sh.header)
       \o [i \in 1..Len(sh.rows) |-> RowText(sh.rows[i])]
       \o (IF sh.fenced THEN <<Fence3>> ELSE <<>>)
       \o (IF sh.post THEN <<ProseLine>> ELSE <<>>),
       "\n")

(***************************************************************************)
(* State.                                                                  *)
(***************************************************************************)
VARIABLES
  pc,               \* position of the run, or of the extractor call
  shape,            \* shape of the response of an extractor call
  input_exists,     \* the input video path exists
  dir_created,      \* output_path.mkdir was done
  analyzer_calls,   \* invocations of the remote analyzer
  analyzer_outcome, \* how the analyzer call ended, "none" before it
  response,         \* the analyzer's text
  event_segments,   \* the extractor's segments
  seg_index,        \* index i of the cut loop
  today,            \* the date read before the cut loop
  cut_calls,        \* the cutter invocations, in order
  planned,          \* what the loop iterations done so far computed before the cutter
  split_files,      \* split_files of the cut loop
  manifest,         \* the lines of the manifest file, NoFile when there is none
  csv_file,         \* the path _save_segments_to_csv returned
  result,           \* the dict split_video returned
  raised            \* the exception type the call raised, "none" when none

\* a call of _time_to_seconds on its own
VARIABLES
  time_fields,      \* the kinds of the colon-separated fields of the argument
  time_str,         \* the argument
  seconds           \* the value returned

runVars ==
  <<pc, shape, input_exists, dir_created, analyzer_calls, analyzer_outcome, response,
    event_segments, seg_index, today, planned, cut_calls, split_files, manifest,
    csv_file, result, raised>>

timeVars == <<time_fields, time_str, seconds>>

\* the main window, its Tk event loop and its worker threads
VARIABLES
  file_path,        \* file_path_var: "" or the chosen file
  button_state,     \* state of execute_button
  status,           \* status_var
  workers,          \* the threads started by _execute_processing, in order
  after_queue,      \* the callbacks given to root.after(0, ...), oldest first
  animate_timers,   \* pending root.after(500, _animate_status_label) timers
  dialogs,          \* the message boxes shown, in order
  callback_errors,  \* the exceptions raised inside Tk callbacks, in order
  presses,          \* presses of the execute button so far
  settings_open,    \* a SettingsDialog is open and holds the input grab
  save_settings_pc  \* where _save_settings stands: "none", or "showinfo" while
                    \* the box of line 487 is up and line 488 has still to run

uiVars ==
  <<file_path, button_state, status, workers, after_queue, animate_timers, dialogs,
    callback_errors, presses, settings_open, save_settings_pc>>

vars == <<runVars, timeVars, uiVars>>

\* the main window after __init__ (lines 16-24)
WindowFresh ==
  /\ file_path = ""
  /\ button_state = "normal"
  /\ status = "idle"
  /\ workers = <<>>
  /\ after_queue = <<>>
  /\ animate_timers = 0
  /\ dialogs = <<>>
  /\ callback_errors = <<>>
  /\ presses = 0
  /\ settings_open = FALSE
  /\ save_settings_pc = "none"

\* the state before anything ran
Fresh ==
  /\ dir_created = FALSE
  /\ analyzer_calls = 0
  /\ analyzer_outcome = "none"
  /\ response = NoText
  /\ event_segments = <<>>
  /\ seg_index = 0
  /\ today = <<>>
  /\ planned = <<>>
  /\ cut_calls = <<>>
  /\ split_files = <<>>
  /\ manifest = NoFile
  /\ csv_file = <<>>
  /\ result = NoResult
  /\ raised = "none"
  /\ time_fields = <<>>
  /\ time_str = <<>>
  /\ seconds = 0
  /\ WindowFresh

(***************************************************************************)
(* A run of split_video.                                                   *)
(***************************************************************************)
Init ==
  /\ pc = "start"
  /\ shape = NoShape
  /\ input_exists \in BOOLEAN
  /\ Fresh

\* an exception of type exc leaves the try block of split_video
RaiseFromRun(exc) ==
  /\ pc' = "raised"
  /\ raised' = split_video_except(exc)

\* lines 48-50
CheckInput ==
  /\ pc = "start"
  /\ IF InputMissing(input_exists)
     THEN RaiseFromRun("VideoSplitterError")
     ELSE pc' = "mkdir" /\ UNCHANGED raised
  /\ UNCHANGED <<shape, input_exists, dir_created, analyzer_calls, analyzer_outcome,
                 response, event_segments, seg_index, today, cut_calls, split_files,
                 manifest, csv_file, result>>
  /\ UNCHANGED planned
  /\ UNCHANGED timeVars
  /\ UNCHANGED uiVars

\* lines 53-57: mkdir(parents=True, exist_ok=True) succeeds or raises OSError
MakeOutputDir ==
  /\ pc = "mkdir"
  /\ \/ /\ dir_created' = TRUE
        /\ pc' = "analyze"
        /\ UNCHANGED raised
     \/ /\ RaiseFromRun("OSError")
        /\ UNCHANGED dir_created
  /\ UNCHANGED <<shape, input_exists, analyzer_calls, analyzer_outcome, response,
                 event_segments, seg_index, today, cut_calls, split_files, manifest,
                 csv_file, result>>
  /\ UNCHANGED planned
  /\ UNCHANGED timeVars
  /\ UNCHANGED uiVars

\* line 63: _analyze_video, with the prompt found or not and the analyzer
\* ending one of its ways
AnalyzeVideo ==
  /\ pc = "analyze"
  /\ \E prompt_found \in BOOLEAN, outcome \in AnalyzerOutcomes, text \in AnalyzerTexts :
       /\ (outcome # "text" \/ ~prompt_found) => text = ProseLine
       /\ ~prompt_found => outcome = "text"
       /\ LET a == analyze_video(prompt_found, outcome, text) IN
          /\ analyzer_calls' = analyzer_calls + a.calls
          /\ analyzer_outcome' = IF a.calls = 0 THEN "none" ELSE outcome
          /\ response' = a.response
          /\ event_segments' = a.segments
          /\ IF a.exc # "none"
             THEN RaiseFromRun(a.exc)
             ELSE pc' = "check" /\ UNCHANGED raised
  /\ UNCHANGED <<shape, input_exists, dir_created, seg_index, today, cut_calls,
                 split_files, manifest, csv_file, result>>
  /\ UNCHANGED planned
  /\ UNCHANGED timeVars
  /\ UNCHANGED uiVars

\* lines 65-66
CheckSegments ==
  /\ pc = "check"
  /\ IF NoSegments(event_segments)
     THEN RaiseFromRun("VideoSplitterError")
     ELSE pc' = "split" /\ UNCHANGED raised
  /\ UNCHANGED <<shape, input_exists, dir_created, analyzer_calls, analyzer_outcome,
                 response, event_segments, seg_index, today, cut_calls, split_files,
                 manifest, csv_file, result>>
  /\ UNCHANGED planned
  /\ UNCHANGED timeVars
  /\ UNCHANGED uiVars

\* lines 243-248: _split_video_with_ffmpeg reads the date once
StartSplit ==
  /\ pc = "split"
  /\ today' \in Dates
  /\ seg_index' = 1
  /\ split_files' = <<>>
  /\ pc' = "cut"
  /\ UNCHANGED <<shape, input_exists, dir_created, analyzer_calls, analyzer_outcome,
                 response, event_segments, cut_calls, manifest, csv_file, result, raised>>
  /\ UNCHANGED planned
  /\ UNCHANGED timeVars
  /\ UNCHANGED uiVars

\* lines 250-301: one iteration of the loop
CutSegment ==
  /\ pc = "cut"
  /\ seg_index <= Len(event_segments)
  /\ LET job == PlanJob(event_segments[seg_index], today) IN
     IF job.skip
     THEN /\ planned' = Append(planned, job)
          /\ seg_index' = seg_index + 1
          /\ UNCHANGED <<cut_calls, split_files>>
     ELSE \E outcome \in CutterOutcomes :
            /\ planned' = Append(planned, job)
            /\ cut_calls' = Append(cut_calls,
                 [seg |-> seg_index, start_seconds |-> job.start_seconds,
                  duration |-> job.duration, output |-> job.output, outcome |-> outcome])
            /\ split_files' = FilesAfterCut(split_files, job.output, outcome)
            /\ seg_index' = IF LoopContinues(outcome) THEN seg_index + 1
                            ELSE Len(event_segments) + 1
  /\ UNCHANGED <<pc, shape, input_exists, dir_created, analyzer_calls, analyzer_outcome,
                 response, event_segments, today, manifest, csv_file, result, raised>>
  /\ UNCHANGED timeVars
  /\ UNCHANGED uiVars

\* line 303 and line 79: the loop is over, _save_segments_to_csv runs
SaveSegments ==
  /\ pc = "cut"
  /\ seg_index > Len(event_segments)
  /\ \E outcome \in SaveOutcomes, n \in 0..Len(ManifestText(event_segments)) :
       /\ outcome # "write_failed" => n = 0
       /\ LET saved == save_segments_to_csv(event_segments, outcome, n) IN
          /\ csv_file' = saved.csv_file
          /\ manifest' = saved.manifest
  /\ pc' = "saved"
  /\ UNCHANGED <<shape, input_exists, dir_created, analyzer_calls, analyzer_outcome,
                 response, event_segments, seg_index, today, cut_calls, split_files,
                 result, raised>>
  /\ UNCHANGED planned
  /\ UNCHANGED timeVars
  /\ UNCHANGED uiVars

\* lines 81-91
ReturnResult ==
  /\ pc = "saved"
  /\ result' = <<RunResult(event_segments, split_files, csv_file)>>
  /\ pc' = "returned"
  /\ UNCHANGED <<shape, input_exists, dir_created, analyzer_calls, analyzer_outcome,
                 response, event_segments, seg_index, today, cut_calls, split_files,
                 manifest, csv_file, raised>>
  /\ UNCHANGED planned
  /\ UNCHANGED timeVars
  /\ UNCHANGED uiVars

Next ==
  \/ CheckInput
  \/ MakeOutputDir
  \/ AnalyzeVideo
  \/ CheckSegments
  \/ StartSplit
  \/ CutSegment
  \/ SaveSegments
  \/ ReturnResult

Spec == Init /\ [][Next]_vars

(***************************************************************************)
(* A call of _parse_csv_response on its own.                               *)
(***************************************************************************)
ParseInit ==
  /\ pc = "parse_call"
  /\ shape \in Shapes \cup {NoShape}
  /\ input_exists = TRUE
  /\ Fresh

\* the call: a shape's text, or a response that is not text
ParseCall ==
  /\ pc = "parse_call"
  /\ response' = Render(shape)
  /\ LET r == parse_csv_response(response') IN
     /\ event_segments' = r.segments
     /\ raised' = r.exc
  /\ pc' = "parse_done"
  /\ UNCHANGED <<shape, input_exists, dir_created, analyzer_calls, analyzer_outcome,
                 seg_index, today, cut_calls, split_files, manifest, csv_file, result>>
  /\ UNCHANGED planned
  /\ UNCHANGED timeVars
  /\ UNCHANGED uiVars

ParseNext == ParseCall

ParseSpec == ParseInit /\ [][ParseNext]_vars

(***************************************************************************)
(* A call of _time_to_seconds on its own.                                  *)
(***************************************************************************)
\* The fields a timecode is made of: integers as int() reads them (with a
\* leading zero, with white space around, with a sign) and fields int()
\* rejects (letters, a fraction, the empty field).
TimeFieldKinds == {"01", "02", "03", "05", "30", "padded7", "minus4", "bad", "fraction", "empty"}

TimeFieldText(kind) ==
  CASE kind = "01"       -> <<"0","1">>
    [] kind = "02"       -> <<"0","2">>
    [] kind = "03"       -> <<"0","3">>
    [] kind = "05"       -> <<"0","5">>
    [] kind = "30"       -> <<"3","0">>
    [] kind = "padded7"  -> <<" ","7","U+3000">>
    [] kind = "minus4"   -> <<"-","4">>
    [] kind = "bad"      -> <<"b","a","d">>
    [] kind = "fraction" -> <<"1",".","5">>
    [] kind = "empty"    -> <<>>

\* the timecodes of the model: one to MaxTimeFields fields
TimeShapes == UNION {[1..k -> TimeFieldKinds] : k \in 1..MaxTimeFields}

\* the text of a timecode
RenderTime(fields) == Join([i \in 1..Len(fields) |-> TimeFieldText(fields[i])], ":")

TimeInit ==
  /\ pc = "time_call"
  /\ shape = NoShape
  /\ input_exists = TRUE
  /\ dir_created = FALSE
  /\ analyzer_calls = 0
  /\ analyzer_outcome = "none"
  /\ response = NoText
  /\ event_segments = <<>>
  /\ seg_index = 0
  /\ today = <<>>
  /\ planned = <<>>
  /\ cut_calls = <<>>
  /\ split_files = <<>>
  /\ manifest = NoFile
  /\ csv_file = <<>>
  /\ result = NoResult
  /\ raised = "none"
  /\ time_fields \in TimeShapes
  /\ time_str = <<>>
  /\ seconds = 0
  /\ WindowFresh

\* the call
TimeCall ==
  /\ pc = "time_call"
  /\ time_str' = RenderTime(time_fields)
  /\ LET r == time_to_seconds_call(time_str') IN
     /\ seconds' = r.value
     /\ raised' = r.exc
  /\ pc' = "time_done"
  /\ UNCHANGED <<shape, input_exists, dir_created, analyzer_calls, analyzer_outcome,
                 response, event_segments, seg_index, today, cut_calls, split_files,
                 manifest, csv_file, result, time_fields, planned>>
  /\ UNCHANGED uiVars

TimeNext == TimeCall

TimeSpec == TimeInit /\ [][TimeNext]_vars

(***************************************************************************)
(* The main window (main_window.py): _browse_file, _execute_processing,    *)
(* _animate_status_label, the worker thread _process_video_split, and the  *)
(* Tk event loop that runs the callbacks given to root.after.              *)
(***************************************************************************)
\* The texts of status_var are named: "idle" (line 115, 181), "warning"
\* (line 113), "analyzing" (line 157) and the texts that start with the
\* base text of the animation, with no dot to three dots (lines 119-129).
ProcessingTexts == {"processing", "processing.", "processing..", "processing..."}

\* lines 121-129: the text after the current one
AnimatedText(current_text) ==
  CASE current_text = "processing"   -> "processing."
    [] current_text = "processing."  -> "processing.."
    [] current_text = "processing.." -> "processing..."
    [] OTHER -> "processing"

\* lines 117-132: _animate_status_label, the status and the pending timers
\* after it
animate_status_label(current_text, timers) ==
  IF current_text \in ProcessingTexts
  THEN [status |-> AnimatedText(current_text), timers |-> timers + 1]
  ELSE [status |-> current_text, timers |-> timers]

\* the files the user can choose: one to analyse as it is, one of the
\* extensions of line 112
ChosenFiles == {"video.mp4", "video.mov"}

\* lines 110-115
StatusForFile(path) == IF path = "video.mov" THEN "warning" ELSE "idle"

\* how lines 159-160 can end: split_video returns its summary, split_video
\* raises VideoSplitterError, or the construction of VideoSplitter raises
\* another exception
SplitOutcomes == {"result", "VideoSplitterError", "Exception"}

\* a thread just started
NewWorker == [pc |-> "start", outcome |-> "none", e_bound |-> FALSE]

\* root.after(0, callback) by worker w
Scheduled(kind, w) == Append(after_queue, [kind |-> kind, worker |-> w])

WindowInit ==
  /\ pc = "window"
  /\ shape = NoShape
  /\ input_exists = TRUE
  /\ Fresh

\* lines 99-115: the user chooses a file
browse_file ==
  /\ ~settings_open
  /\ \E path \in ChosenFiles :
       /\ file_path' = path
       /\ status' = StatusForFile(path)
  /\ UNCHANGED <<button_state, workers, after_queue, animate_timers, dialogs,
                 callback_errors, presses>>
  /\ UNCHANGED <<runVars, timeVars, settings_open, save_settings_pc>>

\* lines 134-147: the user presses the execute button (a disabled button
\* does not call its command, and neither does a button of the main window
\* while a settings dialog holds the grab)
execute_processing ==
  /\ ~settings_open
  /\ button_state = "normal"
  /\ presses < MaxPresses
  /\ presses' = presses + 1
  /\ IF file_path = ""
     THEN /\ dialogs' = Append(dialogs, [kind |-> "error", title |-> "error",
                                        message |-> "select_file", worker |-> 0])
          /\ UNCHANGED <<button_state, status, animate_timers, workers>>
     ELSE /\ button_state' = "disabled"
          /\ LET a == animate_status_label("processing...", animate_timers) IN
             /\ status' = a.status
             /\ animate_timers' = a.timers
          /\ workers' = Append(workers, NewWorker)
          /\ UNCHANGED dialogs
  /\ UNCHANGED <<file_path, after_queue, callback_errors>>
  /\ UNCHANGED <<runVars, timeVars, settings_open, save_settings_pc>>

\* line 132: a timer of the animation fires
animate_timer ==
  /\ animate_timers > 0
  /\ LET a == animate_status_label(status, animate_timers - 1) IN
     /\ status' = a.status
     /\ animate_timers' = a.timers
  /\ UNCHANGED <<file_path, button_state, workers, after_queue, dialogs,
                 callback_errors, presses>>
  /\ UNCHANGED <<runVars, timeVars, settings_open, save_settings_pc>>

\* Lines 151-157: the worker starts, imports the splitter and schedules the
\* status text. When line 152 or the import of line 155 raises, the name
\* VideoSplitterError is not bound: the except clause of line 173 raises
\* UnboundLocalError, no handler runs, and after the finally clause the
\* thread ends with that exception.
WorkerBegin(w) ==
  /\ workers[w].pc = "start"
  /\ \E imported \in BOOLEAN :
       IF imported
       THEN /\ after_queue' = Scheduled("status_analyzing", w)
            /\ workers' = [workers EXCEPT ![w].pc = "split"]
       ELSE /\ UNCHANGED after_queue
            /\ workers' = [workers EXCEPT ![w].pc = "finally",
                                          ![w].outcome = "UnboundLocalError"]
  /\ UNCHANGED <<file_path, button_state, status, animate_timers, dialogs,
                 callback_errors, presses>>
  /\ UNCHANGED <<runVars, timeVars, settings_open, save_settings_pc>>

\* lines 159-177: split_video returns and the success dialog is scheduled,
\* or an exception is bound to e and the handler schedules the error dialog
WorkerSplit(w) ==
  /\ workers[w].pc = "split"
  /\ \E outcome \in SplitOutcomes :
       IF outcome = "result"
       THEN /\ after_queue' = Scheduled("showinfo", w)
            /\ workers' = [workers EXCEPT ![w] =
                 [pc |-> "finally", outcome |-> outcome, e_bound |-> FALSE]]
       ELSE /\ after_queue' = Scheduled("showerror", w)
            /\ workers' = [workers EXCEPT ![w] =
                 [pc |-> "except", outcome |-> outcome, e_bound |-> TRUE]]
  /\ UNCHANGED <<file_path, button_state, status, animate_timers, dialogs,
                 callback_errors, presses>>
  /\ UNCHANGED <<runVars, timeVars, settings_open, save_settings_pc>>

\* the end of an except clause with "as e": the name e is deleted
WorkerLeaveExcept(w) ==
  /\ workers[w].pc = "except"
  /\ workers' = [workers EXCEPT ![w].pc = "finally", ![w].e_bound = FALSE]
  /\ UNCHANGED <<file_path, button_state, status, after_queue, animate_timers, dialogs,
                 callback_errors, presses>>
  /\ UNCHANGED <<runVars, timeVars, settings_open, save_settings_pc>>

\* line 180
WorkerFinallyEnable(w) ==
  /\ workers[w].pc = "finally"
  /\ after_queue' = Scheduled("enable", w)
  /\ workers' = [workers EXCEPT ![w].pc = "finally_status"]
  /\ UNCHANGED <<file_path, button_state, status, animate_timers, dialogs,
                 callback_errors, presses>>
  /\ UNCHANGED <<runVars, timeVars, settings_open, save_settings_pc>>

\* line 181, after which the thread ends
WorkerFinallyStatus(w) ==
  /\ workers[w].pc = "finally_status"
  /\ after_queue' = Scheduled("status_idle", w)
  /\ workers' = [workers EXCEPT ![w].pc = "done"]
  /\ UNCHANGED <<file_path, button_state, status, animate_timers, dialogs,
                 callback_errors, presses>>
  /\ UNCHANGED <<runVars, timeVars, settings_open, save_settings_pc>>

\* the dialog of lines 174 and 177: the lambda reads e of the worker's frame
\* when it runs
ErrorDialog(w) ==
  [kind |-> "error",
   title |-> IF workers[w].outcome = "VideoSplitterError" THEN "split_error" ELSE "error",
   message |-> workers[w].outcome,
   worker |-> w]

\* the dialog of lines 163-171
InfoDialog(w) == [kind |-> "info", title |-> "done", message |-> "summary", worker |-> w]

\* the Tk event loop runs the oldest callback given to root.after(0, ...)
RunCallback ==
  /\ after_queue # <<>>
  /\ after_queue' = Tail(after_queue)
  /\ LET cb == Head(after_queue) IN
     /\ status' = CASE cb.kind = "status_analyzing" -> "analyzing"
                    [] cb.kind = "status_idle" -> "idle"
                    [] OTHER -> status
     /\ button_state' = IF cb.kind = "enable" THEN "normal" ELSE button_state
     /\ dialogs' = CASE cb.kind = "showinfo" -> Append(dialogs, InfoDialog(cb.worker))
                     [] cb.kind = "showerror" /\ workers[cb.worker].e_bound
                          -> Append(dialogs, ErrorDialog(cb.worker))
                     [] OTHER -> dialogs
     /\ callback_errors' =
          IF cb.kind = "showerror" /\ ~workers[cb.worker].e_bound
          THEN Append(callback_errors, [exc |-> "NameError", worker |-> cb.worker])
          ELSE callback_errors
  /\ UNCHANGED <<file_path, workers, animate_timers, presses>>
  /\ UNCHANGED <<runVars, timeVars, settings_open, save_settings_pc>>

\* The boxes of the handlers that do not start a run: the folder button and
\* the settings dialog.
OtherBoxes ==
  {"open_output_dir_failed", "segment_length_not_positive", "segment_length_not_integer",
   "prompt_not_saved", "settings_saved", "settings_not_saved", "reset_prompt"}

\* how many of them were shown
OtherBoxesShown ==
  Cardinality({d \in 1..Len(dialogs) : dialogs[d].message \in OtherBoxes})

\* a box shown by a handler of the user interface thread
Box(kind, title, message) ==
  [kind |-> kind, title |-> title, message |-> message, worker |-> 0]

\* line 39: the user types in the entry of the file path, or empties it
edit_file_path ==
  /\ ~settings_open
  /\ \E text \in ChosenFiles \cup {""} :
       /\ text # file_path
       /\ file_path' = text
  /\ UNCHANGED <<button_state, status, workers, after_queue, animate_timers, dialogs,
                 callback_errors, presses, settings_open>>
  /\ UNCHANGED <<runVars, timeVars, save_settings_pc>>

\* lines 187-199: the folder button; the directory is opened, or an
\* exception of makedirs or os.startfile is shown (the directory itself is
\* not part of the window's state)
open_output_dir ==
  /\ ~settings_open
  /\ \E opened \in BOOLEAN :
       IF opened THEN UNCHANGED dialogs
       ELSE /\ OtherBoxesShown < MaxBoxes
            /\ dialogs' = Append(dialogs, Box("error", "error", "open_output_dir_failed"))
  /\ UNCHANGED <<file_path, button_state, status, workers, after_queue, animate_timers,
                 callback_errors, presses, settings_open>>
  /\ UNCHANGED <<runVars, timeVars, save_settings_pc>>

\* lines 183-185, 202-211: the settings button opens a SettingsDialog, which
\* takes the input grab
show_settings ==
  /\ ~settings_open
  /\ settings_open' = TRUE
  /\ UNCHANGED <<file_path, button_state, status, workers, after_queue, animate_timers,
                 dialogs, callback_errors, presses>>
  /\ UNCHANGED <<runVars, timeVars, save_settings_pc>>

\* how _save_settings can end (lines 443-491)
SaveSettingsOutcomes ==
  {"segment_length_not_positive", "segment_length_not_integer", "prompt_not_saved",
   "settings_saved", "settings_not_saved"}

\* Lines 443-487: the save button of the settings dialog, up to the box it
\* shows. The boxes of the failures end the handler and leave the dialog
\* open. The box of the saved settings (line 487) is modal: the handler
\* waits in it with the dialog still open while Tk goes on running timers
\* and callbacks, and the dialog is destroyed only when the box is
\* dismissed (the configuration is not part of the window's state).
save_settings ==
  /\ settings_open
  /\ save_settings_pc = "none"
  /\ OtherBoxesShown < MaxBoxes
  /\ \E outcome \in SaveSettingsOutcomes :
       /\ dialogs' = Append(dialogs,
            IF outcome = "settings_saved" THEN Box("info", "settings_saved", outcome)
            ELSE Box("error", "error", outcome))
       /\ save_settings_pc' = IF outcome = "settings_saved" THEN "showinfo" ELSE "none"
  /\ UNCHANGED <<file_path, button_state, status, workers, after_queue, animate_timers,
                 callback_errors, presses, settings_open>>
  /\ UNCHANGED <<runVars, timeVars>>

\* line 488: the box of the saved settings is dismissed and the handler
\* destroys the dialog
save_settings_destroy ==
  /\ save_settings_pc = "showinfo"
  /\ save_settings_pc' = "none"
  /\ settings_open' = FALSE
  /\ UNCHANGED <<file_path, button_state, status, workers, after_queue, animate_timers,
                 dialogs, callback_errors, presses>>
  /\ UNCHANGED <<runVars, timeVars>>

\* lines 410-414: the reset button of the settings dialog asks a question
\* (either answer leaves the window's state alone)
reset_video_segmentation_prompt ==
  /\ settings_open
  /\ save_settings_pc = "none"
  /\ OtherBoxesShown < MaxBoxes
  /\ dialogs' = Append(dialogs, Box("question", "confirm", "reset_prompt"))
  /\ UNCHANGED <<file_path, button_state, status, workers, after_queue, animate_timers,
                 callback_errors, presses, settings_open>>
  /\ UNCHANGED <<runVars, timeVars, save_settings_pc>>

\* line 407: the cancel button destroys the settings dialog (the buttons of
\* the dialog take no input while the box of line 487 is up)
cancel_settings ==
  /\ settings_open
  /\ save_settings_pc = "none"
  /\ settings_open' = FALSE
  /\ UNCHANGED <<file_path, button_state, status, workers, after_queue, animate_timers,
                 dialogs, callback_errors, presses>>
  /\ UNCHANGED <<runVars, timeVars, save_settings_pc>>

\* a step of a worker thread
process_video_split ==
  \E w \in 1..Len(workers) :
    \/ WorkerBegin(w)
    \/ WorkerSplit(w)
    \/ WorkerLeaveExcept(w)
    \/ WorkerFinallyEnable(w)
    \/ WorkerFinallyStatus(w)

WindowNext ==
  \/ browse_file
  \/ edit_file_path
  \/ open_output_dir
  \/ show_settings
  \/ save_settings
  \/ save_settings_destroy
  \/ reset_video_segmentation_prompt
  \/ cancel_settings
  \/ execute_processing
  \/ animate_timer
  \/ process_video_split
  \/ RunCallback

WindowSpec == WindowInit /\ [][WindowNext]_vars

(***************************************************************************)
(* Properties of a run of split_video (specification Spec).                *)
(***************************************************************************)
NothingDone ==
  /\ cut_calls = <<>>
  /\ manifest = NoFile
  /\ result = NoResult

Failed == pc = "raised" /\ raised = "VideoSplitterError"

\* C1: when the input path does not exist the run raises the pipeline error
\* at its first step: the output directory is not created, the analyzer and
\* the cutter are never called, no manifest is written, nothing is returned.
C1_MissingInputFailsFirst ==
  (~input_exists /\ pc # "start") =>
     /\ Failed
     /\ ~dir_created
     /\ analyzer_calls = 0
     /\ analyzer_outcome = "none"
     /\ NothingDone

C1_Witness == ~input_exists /\ pc = "raised"

\* C2: the analyzer is invoked at most once in a run, and when that call
\* fails the run has raised the pipeline error with no cutter call, no
\* manifest and no result.
C2_AnalyzerOnceAndFatal ==
  /\ analyzer_calls <= 1
  /\ analyzer_outcome \in {"upload_error", "generate_error", "empty_text"} =>
       (analyzer_calls = 1 /\ Failed /\ NothingDone)

C2_Witness == analyzer_outcome = "generate_error" /\ pc = "raised" /\ analyzer_calls = 1

\* C3: when the analyzer returned text and the extractor found no segment in
\* it, the run raises the pipeline error with no cutter call, no manifest and
\* no result.
C3_NoSegmentsIsFatal ==
  (analyzer_outcome = "text" /\ parse_csv_response(response).segments = <<>> /\ pc # "check") =>
     (Failed /\ NothingDone)

C3_Witness ==
  /\ analyzer_outcome = "text"
  /\ HasFence(response)
  /\ event_segments = <<>>
  /\ pc = "raised"

\* the indices below n of the segments the loop makes a job of, in order
JobsBefore(n) ==
  SelectSeq([i \in 1..Len(event_segments) |-> i],
            LAMBDA i : i < n /\ ~PlanJob(event_segments[i], today).skip)

\* the outputs of the cutter calls that reported success, in call order
RECURSIVE OkOutputs(_)
OkOutputs(calls) ==
  IF calls = <<>> THEN <<>>
  ELSE (IF Head(calls).outcome = "ok" THEN <<Head(calls).output>> ELSE <<>>)
       \o OkOutputs(Tail(calls))

LoopOver == pc \in {"saved", "returned"}

\* C4: in the cut loop a failed or raising cutter call affects only its own
\* job: the calls made so far are exactly one call for each job reached so
\* far, in job order; the loop ends only after the last segment; and
\* split_files is exactly the outputs of the calls that reported success.
C4_CutFailureIsLocal ==
  pc \in {"cut", "saved", "returned"} =>
     /\ [k \in 1..Len(cut_calls) |-> cut_calls[k].seg] = JobsBefore(seg_index)
     /\ split_files = OkOutputs(cut_calls)
     /\ LoopOver => seg_index = Len(event_segments) + 1

C4_Witness ==
  /\ pc = "saved"
  /\ Len(cut_calls) = 2
  /\ cut_calls[1].outcome = "exception"
  /\ cut_calls[2].outcome = "ok"
  /\ Len(split_files) = 1

\* the cutter calls made for segment i
CallsOf(i) == {k \in 1..Len(cut_calls) : cut_calls[k].seg = i}

\* C5: once the loop is over, a segment whose end time in seconds is not
\* after its start time has no cutter call; every other segment has exactly
\* one, with the start and the positive duration end - start; and the calls
\* are in the order of their segments.
C5_NonPositiveDurationSkipped ==
  LoopOver =>
     /\ \A i \in 1..Len(event_segments) :
          LET start_seconds == time_to_seconds(event_segments[i].start_time)
              end_seconds   == time_to_seconds(event_segments[i].end_time)
          IN  IF end_seconds <= start_seconds
              THEN CallsOf(i) = {}
              ELSE /\ Cardinality(CallsOf(i)) = 1
                   /\ \A k \in CallsOf(i) :
                        /\ cut_calls[k].start_seconds = start_seconds
                        /\ cut_calls[k].duration = end_seconds - start_seconds
                        /\ cut_calls[k].duration > 0
     /\ \A k \in 1..(Len(cut_calls) - 1) : cut_calls[k].seg < cut_calls[k + 1].seg

C5_Witness ==
  /\ pc = "saved"
  /\ Len(event_segments) = 2
  /\ time_to_seconds(event_segments[1].end_time) = time_to_seconds(event_segments[1].start_time)
  /\ CallsOf(1) = {}
  /\ CallsOf(2) # {}

\* the text without the carriage return at its end
WithoutCR(line) ==
  IF line # <<>> /\ line[Len(line)] = "\r" THEN SubSeq(line, 1, Len(line) - 1) ELSE line

\* The segments a manifest file holds: the fields of its complete lines
\* after the header line (no field of the model's runs needs quotes); a
\* line that does not hold three fields is kept whole as the event_id.
ManifestSegments(text) ==
  LET lines == Split(text, "\n") IN
  [i \in 1..(Len(lines) - 2) |->
     LET parts == Split(WithoutCR(lines[i + 1]), ",") IN
     IF Len(parts) = 3
     THEN [event_id |-> parts[1], start_time |-> parts[2], end_time |-> parts[3]]
     ELSE [event_id |-> lines[i + 1], start_time |-> <<>>, end_time |-> <<>>]]

\* the segments the extractor returns for the analyzer's text of the run
Extracted == parse_csv_response(response).segments

\* C6 as stated: in every run that returns, the manifest and the result's
\* segments hold every extracted segment, in order and with the timecode
\* texts unchanged, and segments_count is the number of extracted segments.
C6_AsStated ==
  pc = "returned" =>
     /\ manifest # NoFile
     /\ ManifestSegments(manifest) = Extracted
     /\ result[1].segments = Extracted
     /\ result[1].segments_count = Len(Extracted)

\* C6 amended: in every run that returns, the result's segments hold every
\* extracted segment, in order and with the timecode texts unchanged, and
\* segments_count is their number; the manifest holds them all, in the same
\* order and text, whenever it was written, that is whenever the result's
\* csv_file is not empty.
C6_ResultAndWrittenManifestComplete ==
  pc = "returned" =>
     /\ result[1].segments = Extracted
     /\ result[1].segments_count = Len(Extracted)
     /\ result[1].csv_file # <<>> =>
          /\ manifest # NoFile
          /\ MatchAt(manifest, HeaderTokens \o CsvLineEnd, 1)
          /\ manifest[Len(manifest)] = "\n"
          /\ ManifestSegments(manifest) = Extracted

C6_Witness ==
  /\ pc = "returned"
  /\ result[1].csv_file # <<>>
  /\ Len(event_segments) = 2
  /\ Len(cut_calls) = 1
  /\ cut_calls[1].outcome = "failed"
  /\ result[1].split_files = <<>>
  /\ result[1].segments_count = 2

SummaryKeys ==
  {"input_file", "output_directory", "segments_count", "split_files", "csv_file", "segments"}

\* the run has a next step (in the loop: an iteration, or the loop's end)
CanGoOn ==
  \/ pc = "start" /\ ENABLED CheckInput
  \/ pc = "mkdir" /\ ENABLED MakeOutputDir
  \/ pc = "analyze" /\ ENABLED AnalyzeVideo
  \/ pc = "check" /\ ENABLED CheckSegments
  \/ pc = "split" /\ ENABLED StartSplit
  \/ pc = "cut" /\ seg_index \in 1..Len(event_segments)
  \/ pc = "cut" /\ ENABLED SaveSegments
  \/ pc = "saved" /\ ENABLED ReturnResult

\* C7: a run ends in exactly one of two ways: it returns the complete
\* summary and raises nothing, or it raises VideoSplitterError and returns
\* nothing, whatever the type of the exception inside the run; before its
\* end it has done neither, and it has a next step.
C7_ReturnsOrRaises ==
  /\ pc = "returned" => (raised = "none" /\ Len(result) = 1 /\ DOMAIN result[1] = SummaryKeys)
  /\ pc = "raised" => (raised = "VideoSplitterError" /\ result = NoResult)
  /\ pc \notin {"returned", "raised"} => (raised = "none" /\ result = NoResult /\ CanGoOn)

\* the run ended by the OSError of mkdir
C7_Witness == pc = "raised" /\ input_exists /\ ~dir_created

\* the text ends with the suffix
EndsWith(text, suffix) ==
  /\ Len(text) >= Len(suffix)
  /\ SubSeq(text, Len(text) - Len(suffix) + 1, Len(text)) = suffix

\* C13 as stated: the plan of every segment is complete before the first
\* cutter call is made.
C13_AsStated ==
  cut_calls # <<>> => Len(planned) = Len(event_segments)

\* C13 amended: the segment list is complete before the loop starts and the
\* run date is read once before the first segment is planned, so that every
\* output file name of the run carries that one date; a segment is planned
\* (times, duration check, file name) in its own loop iteration, just before
\* its cutter call, so that after the cutter call of segment i exactly the
\* segments 1..i are planned, each from its segment and the run date alone.
C13_PlannedInTurn ==
  pc \in {"cut", "saved", "returned"} =>
     /\ event_segments = parse_csv_response(response).segments
     /\ today \in Dates
     /\ Len(planned) = seg_index - 1
     /\ \A i \in 1..Len(planned) : planned[i] = PlanJob(event_segments[i], today)
     /\ \A k \in 1..Len(cut_calls) :
          /\ cut_calls[k].seg <= Len(planned)
          /\ ~planned[cut_calls[k].seg].skip
          /\ cut_calls[k].output = planned[cut_calls[k].seg].output
          /\ EndsWith(cut_calls[k].output, <<"_">> \o today \o Mp4Ext)
          /\ k = Len(cut_calls) => \A j \in (cut_calls[k].seg + 1)..Len(planned) : planned[j].skip

C13_Witness ==
  /\ pc = "cut"
  /\ Len(event_segments) = 2
  /\ Len(cut_calls) = 1
  /\ cut_calls[1].seg = 1
  /\ Len(planned) = 1

\* The segments of the model's replies whose duration is not positive: the
\* inverted interval (01:30 to 01:10) and the malformed timecodes (both read
\* as zero).
NonPositiveIds == {<<"e","v","2">>, <<"e","v","4">>}

\* the extractor returned segments, none of positive duration
AllNonPositive ==
  /\ event_segments # <<>>
  /\ \A i \in 1..Len(event_segments) : event_segments[i].event_id \in NonPositiveIds

\* C14 as stated: when every extracted segment has a non-positive duration
\* the run makes no cutter call, writes the manifest with all segments and
\* returns no produced file and segments_count the number of segments.
C14_AsStated ==
  (pc = "returned" /\ AllNonPositive) =>
     /\ cut_calls = <<>>
     /\ ManifestSegments(manifest) = event_segments
     /\ result[1].split_files = <<>>
     /\ result[1].segments_count = Len(event_segments)

\* C14 amended: when every extracted segment has a non-positive duration
\* the run does not fail: it makes no cutter call, goes on to the manifest
\* write with all segments, and returns no produced file and segments_count
\* the number of extracted segments; the manifest holds all segments when
\* its write succeeded, and csv_file is empty when it failed.
C14_AllSkippedRunReturns ==
  AllNonPositive =>
     /\ pc # "raised" /\ raised = "none"
     /\ cut_calls = <<>> /\ split_files = <<>>
     /\ (pc = "cut" /\ seg_index > Len(event_segments)) => ENABLED SaveSegments
     /\ LoopOver =>
          /\ \A i \in 1..Len(planned) : planned[i].skip
          /\ Len(planned) = Len(event_segments)
          /\ IF csv_file # <<>>
             THEN /\ ManifestSegments(manifest) = event_segments
                  /\ manifest[Len(manifest)] = "\n"
             ELSE \/ manifest = NoFile
                  \/ manifest = SubSeq(ManifestText(event_segments), 1, Len(manifest))
     /\ pc = "returned" =>
          /\ result[1].split_files = <<>>
          /\ result[1].segments_count = Len(event_segments)
          /\ result[1].segments = event_segments
          /\ result[1].csv_file = csv_file

C14_Witness ==
  /\ pc = "returned"
  /\ Len(event_segments) = 2
  /\ event_segments[1].event_id = <<"e","v","4">>
  /\ event_segments[2].event_id = <<"e","v","2">>
  /\ cut_calls = <<>>
  /\ result[1].csv_file = ManifestPath
  /\ Len(ManifestSegments(manifest)) = 2
  /\ result[1].segments_count = 2

\* the manifest write failed: no file, or a file without the end of its text
WriteFailed ==
  LoopOver /\ manifest # ManifestText(event_segments)

\* C15: a failed manifest write is not fatal: the run returns a result
\* whose csv_file is the empty string and whose produced files and segments
\* are those of the cut loop and of the extractor, as with a manifest
\* written; and the manifest is written only after every cut was attempted.
C15_ManifestFailureNotFatal ==
  /\ ~LoopOver => (manifest = NoFile /\ csv_file = <<>>)
  /\ LoopOver =>
       /\ seg_index = Len(event_segments) + 1
       /\ Len(planned) = Len(event_segments)
       /\ \A i \in 1..Len(planned) :
            planned[i].skip \/ \E k \in 1..Len(cut_calls) : cut_calls[k].seg = i
       /\ csv_file \in {<<>>, ManifestPath}
  /\ WriteFailed =>
       /\ csv_file = <<>>
       /\ raised = "none"
       /\ pc = "saved" => ENABLED ReturnResult
  /\ pc = "returned" =>
       /\ result[1].csv_file = csv_file
       /\ result[1].split_files = OkOutputs(cut_calls)
       /\ result[1].segments = Extracted
       /\ result[1].segments_count = Len(Extracted)

C15_Witness ==
  /\ pc = "returned"
  /\ Len(event_segments) = 2
  /\ manifest # NoFile
  /\ Len(manifest) = 40
  /\ Len(cut_calls) = 2
  /\ cut_calls[1].outcome = "ok"
  /\ cut_calls[2].outcome = "exception"
  /\ result[1].csv_file = <<>>
  /\ Len(result[1].split_files) = 1

(***************************************************************************)
(* Properties of _parse_csv_response (specification ParseSpec).            *)
(***************************************************************************)
ParseDone == pc = "parse_done"

\* C8: the extractor never raises: a response with no fenced csv block and
\* no header tokens in it gives no segment, and a failure inside (a response
\* that is not text) gives the segments accepted so far, here none.
C8_ExtractorNeverRaises ==
  ParseDone =>
     /\ raised = "none"
     /\ shape = NoShape => event_segments = <<>>
     /\ (shape # NoShape /\ ~HasFence(response) /\ ~Contains(Lower(response), HeaderTokens))
          => event_segments = <<>>

C8_Witness ==
  /\ ParseDone
  /\ ~shape.fenced
  /\ shape.header = "alt"
  /\ shape.rows = <<"valid_a", "valid_b">>
  /\ event_segments = <<>>

\* the segment a valid row of the model's responses holds
SegA == [event_id |-> <<"a">>, start_time |-> <<"1">>, end_time |-> <<"2">>]
SegB == [event_id |-> <<"b">>, start_time |-> <<"3">>, end_time |-> <<"4">>]

RECURSIVE ValidSegments(_)
ValidSegments(rows) ==
  IF rows = <<>> THEN <<>>
  ELSE (CASE Head(rows) = "valid_a" -> <<SegA>>
          [] Head(rows) = "valid_b" -> <<SegB>>
          [] OTHER -> <<>>)
       \o ValidSegments(Tail(rows))

AllRowsIn(kinds) == \A i \in 1..Len(shape.rows) : shape.rows[i] \in kinds

\* C9: for a fenced csv block with a header line and N valid data rows, with
\* or without prose before and after the block, the extractor returns N
\* segments, the i-th holding the trimmed first three fields of the i-th row.
C9_FencedRowsAllReturned ==
  (ParseDone /\ shape.fenced /\ shape.header \in {"tokens", "alt"}
     /\ AllRowsIn({"valid_a", "valid_b"})) =>
     /\ Len(event_segments) = Len(shape.rows)
     /\ event_segments = ValidSegments(shape.rows)

C9_Witness ==
  /\ ParseDone
  /\ shape.fenced /\ shape.pre /\ shape.post
  /\ shape.header = "alt"
  /\ shape.rows = <<"valid_b", "valid_a", "valid_b">>
  /\ Len(event_segments) = 3

\* the table has a header line the presentation recognises
HasHeader ==
  IF shape.fenced THEN shape.header \in {"tokens", "alt"} ELSE shape.header = "tokens"

ClaimRows == {"valid_a", "valid_b", "two_fields", "empty_id"}

\* C10 as stated: fenced or not, a row with an empty field or with only two
\* fields is dropped and every other valid row of the table is returned, in
\* order.
C10_AsStated ==
  (ParseDone /\ HasHeader /\ AllRowsIn(ClaimRows)) =>
     event_segments = ValidSegments(shape.rows)

\* the rows before the first row with only two fields
RECURSIVE BeforeTwoFields(_)
BeforeTwoFields(rows) ==
  IF rows = <<>> \/ Head(rows) = "two_fields" THEN <<>>
  ELSE <<Head(rows)>> \o BeforeTwoFields(Tail(rows))

NonEmptyTrimmed(t) == t # <<>> /\ ~IsSpace(t[1]) /\ ~IsSpace(t[Len(t)])

\* C10 amended: a row with an empty field is dropped, fenced or not, and so
\* is a row with only two fields in a fenced block, the other valid rows
\* being returned in order; in a table without fence a row with only two
\* fields ends the table, so that the valid rows before it are returned and
\* no row after it is. No error is raised, and every returned segment has
\* its three fields non-empty and trimmed.
C10_DroppedRows ==
  ParseDone =>
     /\ raised = "none"
     /\ \A i \in 1..Len(event_segments) :
          /\ NonEmptyTrimmed(event_segments[i].event_id)
          /\ NonEmptyTrimmed(event_segments[i].start_time)
          /\ NonEmptyTrimmed(event_segments[i].end_time)
     /\ (HasHeader /\ AllRowsIn(ClaimRows)) =>
          event_segments =
            IF shape.fenced THEN ValidSegments(shape.rows)
            ELSE ValidSegments(BeforeTwoFields(shape.rows))

C10_Witness ==
  /\ ParseDone
  /\ ~shape.fenced
  /\ shape.header = "tokens"
  /\ shape.rows = <<"empty_id", "valid_a", "two_fields">>
  /\ event_segments = <<SegA>>

\* the lines of a response without fence, by kind
LineKinds(sh) ==
  (IF sh.pre THEN <<"prose">> ELSE <<>>)
  \o (CASE sh.header = "tokens" -> <<"header">>
        [] sh.header = "alt" -> <<"alt_header">>
        [] OTHER -> <<>>)
  \o sh.rows
  \o (IF sh.post THEN <<"prose">> ELSE <<>>)

\* the line has a comma and at least three comma-separated fields
TableShapedKinds == {"valid_a", "valid_b", "empty_id", "header", "alt_header"}

\* the first line with the header tokens, 0 when there is none
FirstHeader(kinds) ==
  IF \E i \in 1..Len(kinds) : kinds[i] = "header"
  THEN CHOOSE i \in 1..Len(kinds) :
         kinds[i] = "header" /\ \A j \in 1..(i - 1) : kinds[j] # "header"
  ELSE 0

\* the first line after the header that is neither blank nor table-shaped,
\* one past the last line when there is none
StoppingLine(kinds) ==
  LET h == FirstHeader(kinds)
      stops == {i \in (h + 1)..Len(kinds) : kinds[i] \notin TableShapedKinds \cup {"blank"}}
  IN IF stops = {} THEN Len(kinds) + 1
     ELSE CHOOSE i \in stops : \A j \in stops : i <= j

\* the kinds of the table-shaped lines from line i to line n
RECURSIVE TableLines(_, _, _)
TableLines(kinds, i, n) ==
  IF i > n THEN <<>>
  ELSE (IF kinds[i] \in TableShapedKinds THEN <<kinds[i]>> ELSE <<>>)
       \o TableLines(kinds, i + 1, n)

\* the lines the claim has captured after the header line
CapturedRows(kinds) ==
  IF FirstHeader(kinds) = 0 THEN <<>>
  ELSE TableLines(kinds, FirstHeader(kinds) + 1, StoppingLine(kinds) - 1)

\* the trimmed text of a captured line
TrimmedLine(kind) ==
  CASE kind = "valid_a"  -> <<"a"," ",","," ","1"," ",",","2">>
    [] kind = "valid_b"  -> RowB
    [] kind = "empty_id" -> <<",","6",",","7">>
    [] kind = "header"   -> HeaderLine

\* the segment of a header line captured as a data row
SegHeaderRow ==
  [event_id |-> <<"E","v","e","n","t","_","I","D">>,
   start_time |-> <<"s","t","a","r","t","_","t","i","m","e">>,
   end_time |-> <<"e","n","d","_","t","i","m","e">>]

RECURSIVE SegmentsOfRows(_)
SegmentsOfRows(rows) ==
  IF rows = <<>> THEN <<>>
  ELSE (CASE Head(rows) = "valid_a" -> <<SegA>>
          [] Head(rows) = "valid_b" -> <<SegB>>
          [] Head(rows) = "header"  -> <<SegHeaderRow>>
          [] OTHER -> <<>>)
       \o SegmentsOfRows(Tail(rows))

\* C12: without a fenced csv block the line scan ignores every line before
\* the first line that holds the header tokens in any letter case, captures
\* that line as the header and then every later line with a comma and three
\* fields or more, passes over blank lines and stops at the first line that
\* is neither blank nor table-shaped; the segments are those of the
\* captured rows: none from the header line, none from a line before it,
\* none from a line after the stopping line.
C12_LineScanCapture ==
  (ParseDone /\ shape # NoShape /\ ~shape.fenced) =>
     LET kinds == LineKinds(shape)
         rows == CapturedRows(kinds)
     IN /\ raised = "none"
        /\ event_segments = SegmentsOfRows(rows)
        /\ LineScanContent(response) =
             IF FirstHeader(kinds) = 0 THEN <<>>
             ELSE Join(<<HeaderLine>> \o [i \in 1..Len(rows) |-> TrimmedLine(rows[i])], "\n")

C12_Witness ==
  /\ ParseDone
  /\ ~shape.fenced /\ shape.pre /\ shape.post
  /\ shape.header = "alt"
  /\ shape.rows = <<"header", "blank", "valid_b">>
  /\ event_segments = <<SegB>>

(***************************************************************************)
(* Properties of _time_to_seconds (specification TimeSpec).                *)
(***************************************************************************)
\* the field is an integer for int()
IsIntegerField(kind) == kind \in {"01", "02", "03", "05", "30", "padded7", "minus4"}

\* the integer of an integer field
FieldValue(kind) ==
  CASE kind = "01" -> 1 [] kind = "02" -> 2 [] kind = "03" -> 3 [] kind = "05" -> 5
    [] kind = "30" -> 30 [] kind = "padded7" -> 7 [] kind = "minus4" -> 0 - 4

AllIntegerFields(fields) == \A i \in 1..Len(fields) : IsIntegerField(fields[i])

\* the seconds the timecode stands for, zero when it is malformed
ExpectedSeconds(fields) ==
  IF Len(fields) = 2 /\ AllIntegerFields(fields)
  THEN FieldValue(fields[1]) * 60 + FieldValue(fields[2])
  ELSE IF Len(fields) = 3 /\ AllIntegerFields(fields)
  THEN FieldValue(fields[1]) * 3600 + FieldValue(fields[2]) * 60 + FieldValue(fields[3])
  ELSE 0

\* C11: _time_to_seconds returns minutes*60 + seconds for two integer
\* fields, hours*3600 + minutes*60 + seconds for three, and zero for every
\* other text (another number of fields, or a field that is no integer); it
\* never raises. "05:30" gives 330, "01:02:03" gives 3723, "bad" gives 0.
C11_TimeCodec ==
  pc = "time_done" =>
     /\ raised = "none"
     /\ seconds = ExpectedSeconds(time_fields)
     /\ time_fields = <<"05", "30">> => seconds = 330
     /\ time_fields = <<"01", "02", "03">> => seconds = 3723
     /\ time_fields = <<"bad">> => seconds = 0

C11_Witness ==
  /\ pc = "time_done"
  /\ time_fields = <<"01", "bad", "03">>
  /\ seconds = 0
  /\ raised = "none"

(***************************************************************************)
(* Properties of the main window (specification WindowSpec).               *)
(***************************************************************************)
\* the worker ended after an exception of lines 152-160
EndedByError(w) ==
  /\ workers[w].pc = "done"
  /\ workers[w].outcome \in {"VideoSplitterError", "Exception"}

\* the error dialog the worker scheduled has still to run
ErrorDialogPending(w) ==
  \E k \in 1..Len(after_queue) :
    after_queue[k].kind = "showerror" /\ after_queue[k].worker = w

\* C16 as stated: when the worker has ended because split_video raised, the
\* callback it scheduled displays an error dialog with the error's message:
\* the callback reads the error without failing, also after the worker's
\* exception handler has finished, so that once the callback has run the
\* dialog is among the dialogs shown.
C16_AsStated ==
  /\ callback_errors = <<>>
  /\ \A w \in 1..Len(workers) :
       (EndedByError(w) /\ ~ErrorDialogPending(w)) =>
          \E d \in 1..Len(dialogs) : dialogs[d] = ErrorDialog(w)

\* the worker threads that exist
AliveWorkers == {w \in 1..Len(workers) : workers[w].pc # "done"}

\* C17 as stated: at most one background worker exists at any time.
C17_AsStated == Cardinality(AliveWorkers) <= 1

====
